---- MODULE Spec2Model ----
(***************************************************************************)
(* A model of index.ts: the script that checks its two API keys, indexes   *)
(* every recipe of the bundled corpus into the Pinecone index 'recipes'    *)
(* (listIndexes / createIndex, embeddings.create, upsert) and then runs    *)
(* one semantic search (embeddings.create, listIndexes, query) whose       *)
(* mapped matches it prints.                                               *)
(*                                                                         *)
(* The program is single-threaded: every remote call is awaited.  A call   *)
(* is modelled by two steps, the one that issues it (an event appended to  *)
(* trace, status "pending") and the one in which its promise settles       *)
(* (status "ok" or "failed").  The remote services are the environment:    *)
(* indexes and store are the state of the vector database, which outlives  *)
(* a run of the script; Restart runs the script again on the same account. *)
(***************************************************************************)
EXTENDS Integers, Sequences, FiniteSets

VARIABLES
    env,            \* process.env: the two secrets
    corpus,         \* recipes.json: the sequence of documents
    pc,             \* position of the script
    fn,             \* the method of VectorDatabase that is running
    i,              \* position of the for..of loop in the corpus (0: before)
    handle,         \* local `index`: the handle getIndex returned
    embedding,      \* local `embedding` / `vector`
    searchResults,  \* the value semanticSearch returned
    console,        \* what was written to the console, in order
    error,          \* message of the uncaught error
    exitCode,       \* exit status of the process, once it has ended
    trace,          \* the remote calls of this run, in the order issued
    indexes,        \* remote: the indexes of the Pinecone project
    store,          \* remote: the records of the index 'recipes'
    lastIndexed,    \* history: per document id, what indexDocument last stored and replaced
    gets            \* history: the last two getIndex calls that returned

vars == <<env, corpus, pc, fn, i, handle, embedding, searchResults, console,
          error, exitCode, trace, indexes, store, lastIndexed, gets>>

(***************************************************************************)
(* Bounds and program constants.                                           *)
(***************************************************************************)
MaxDocs == 2

dimension == 1536

DefaultTopK == 3

SliceEnd == 50

indexName == "recipes"

metric == "cosine"

EmbeddingModel == "text-embedding-ada-002"

QueryText == <<114, 101, 99, 105, 112, 101, 115>>

\* The literal appended to the sliced content (three UTF-16 code units).
EllipsisMarker == <<226, 8364, 166>>

\* String(undefined), what `undefined + '...'` starts with.
UndefinedText == <<117, 110, 100, 101, 102, 105, 110, 101, 100>>

None == <<>>

Some(x) == <<x>>

Min(a, b) == IF a < b THEN a ELSE b

Max(a, b) == IF a > b THEN a ELSE b

(***************************************************************************)
(* The corpus (recipes.json) and the environment.                          *)
(***************************************************************************)
Text(len, seed) == [j \in 1..len |-> 97 + ((j + seed) % 7)]

ContentLen(k) == CASE k % 3 = 1 -> 51
                   [] k % 3 = 2 -> 50
                   [] OTHER     -> 3

Recipe(k) == [id      |-> <<"id", k>>,
              title   |-> <<"title", k>>,
              content |-> Text(ContentLen(k), k)]

Recipes(n) == [k \in 1..n |-> Recipe(k)]

Unset == "<unset>"

EnvValues == {Unset, "", "key"}

(***************************************************************************)
(* The remote services.                                                    *)
(***************************************************************************)
Vectors == {1, 2}

Abs(x) == IF x < 0 THEN -x ELSE x

\* Similarity of two embeddings: larger is closer.
Score(q, v) == 3 - Abs(q - v)

RecipesIndexModel == [name |-> indexName, dimension |-> dimension, metric |-> metric]

OtherIndexModel == [name |-> "other", dimension |-> 768, metric |-> "euclidean"]

\* Records an earlier run over an older corpus left behind.
StaleRecord(k, v, len) ==
    [id |-> <<"id", k>>, values |-> v,
     metadata |-> [title |-> <<"old", k>>, content |-> Text(len, k + 3)]]

StaleStores == { {},
                 {StaleRecord(1, 2, 60)},
                 {StaleRecord(8, 1, 7), StaleRecord(9, 3, 60)},
                 {StaleRecord(1, 2, 60), StaleRecord(8, 1, 7), StaleRecord(9, 3, 60)} }

\* listIndexes: the SDK's `indexes` field may be missing when there are none.
ListIndexesResponses(idx) ==
    IF idx = {} THEN {[indexes |-> None], [indexes |-> Some({})]}
    ELSE {[indexes |-> Some(idx)]}

RemoteCreateIndex(idx, options) ==
    idx \cup {[name |-> options.name, dimension |-> options.dimension,
               metric |-> options.metric]}

RECURSIVE RemoteUpsert(_, _)
RemoteUpsert(st, records) ==
    IF records = <<>> THEN st
    ELSE RemoteUpsert({r \in st : r.id # Head(records).id} \cup {Head(records)},
                      Tail(records))

ToMatch(r, vector, includeMetadata) ==
    [id |-> r.id, score |-> Score(vector, r.values),
     metadata |-> IF includeMetadata THEN Some(r.metadata) ELSE None]

\* query: the topK nearest records, nearest first; ties in any order.
RemoteQuery(st, q) ==
    LET k == Min(q.topK, Cardinality(st))
    IN  { [n \in 1..k |-> ToMatch(f[n], q.vector, q.includeMetadata)] :
          f \in { g \in [1..k -> st] :
                    /\ \A a, b \in 1..k : a # b => g[a] # g[b]
                    /\ \A a, b \in 1..k :
                          a < b => Score(q.vector, g[a].values) >= Score(q.vector, g[b].values)
                    /\ \A r \in st : (\A a \in 1..k : g[a] # r) =>
                          \A a \in 1..k : Score(q.vector, g[a].values) >= Score(q.vector, r.values) } }

(***************************************************************************)
(* The pure parts of index.ts.                                             *)
(***************************************************************************)
NoError == ""

Falsy(v) == v = Unset \/ v = ""

\* The first check repeated where the second belongs.
ConfigErrorPineconeTwice(e) ==
    IF Falsy(e.PINECONE_API_KEY) THEN "Pinecone API key is required"
    ELSE IF Falsy(e.PINECONE_API_KEY) THEN "OpenAI API key is required"
    ELSE NoError

ConfigError(e) ==
    IF Falsy(e.PINECONE_API_KEY) THEN "Pinecone API key is required"
    ELSE IF Falsy(e.OPEN_AI_API_KEY) THEN "OpenAI API key is required"
    ELSE NoError

\* Any index at all taken for the one wanted.
IndexExistsAny(response) ==
    IF response.indexes = None THEN FALSE
    ELSE response.indexes[1] # {}

IndexExists(response) ==
    IF response.indexes = None THEN FALSE
    ELSE \E index \in response.indexes[1] : index.name = indexName

\* The dimension of another embedding model.
CreateIndexOptionsOtherDimension ==
    [name |-> indexName, dimension |-> 768, metric |-> metric,
     spec |-> [serverless |-> [cloud |-> "aws", region |-> "us-east-1"]]]

CreateIndexOptions ==
    [name |-> indexName, dimension |-> dimension, metric |-> metric,
     spec |-> [serverless |-> [cloud |-> "aws", region |-> "us-east-1"]]]

Index(name) == [index |-> name]

EmbeddingRequest(text) == [model |-> EmbeddingModel, input |-> text]

FirstEmbedding(response) == response.data[1].embedding

\* The record keyed by the title instead of the id.
UpsertRecordsKeyedByTitle(document, values) ==
    << [id |-> document.title, values |-> values,
        metadata |-> [title |-> document.title, content |-> document.content]] >>

UpsertRecords(document, values) ==
    << [id |-> document.id, values |-> values,
        metadata |-> [title |-> document.title, content |-> document.content]] >>

TopK(arg) == IF arg = None THEN DefaultTopK ELSE arg[1]

QueryRequest(vector, topK) == [vector |-> vector, topK |-> topK, includeMetadata |-> TRUE]

\* The end index taken as inclusive.
SliceInclusiveEnd(s, begin, end) ==
    IF begin >= Len(s) THEN <<>> ELSE SubSeq(s, begin + 1, IF end + 1 < Len(s) THEN end + 1 ELSE Len(s))

\* String.prototype.slice(begin, end)
Slice(s, begin, end) ==
    LET len  == Len(s)
        from == IF begin < 0 THEN Max(len + begin, 0) ELSE Min(begin, len)
        to   == IF end < 0 THEN Max(len + end, 0) ELSE Min(end, len)
    IN  IF from >= to THEN <<>> ELSE SubSeq(s, from + 1, to)

MapMatch(match) ==
    [id      |-> match.id,
     title   |-> IF match.metadata = None THEN None ELSE match.metadata[1].title,
     content |-> (IF match.metadata = None THEN UndefinedText
                  ELSE Slice(match.metadata[1].content, 0, SliceEnd)) \o EllipsisMarker,
     score   |-> match.score]

\* The matches mapped back to front.
MapMatchesReversed(matches) ==
    [n \in 1..Len(matches) |-> MapMatch(matches[Len(matches) + 1 - n])]

MapMatches(matches) == [n \in 1..Len(matches) |-> MapMatch(matches[n])]

\* Control flow: what each method does first and after each awaited call.
\* The loop leaving one document early.
LoopSkipsLast(n, docs) == n + 1 < Len(docs)

LoopHasNext(n, docs) == n < Len(docs)

FirstCall(f) == IF f = "indexDocument" THEN "listIndexes" ELSE "embed"

AfterGetIndex(f) == IF f = "indexDocument" THEN "embed" ELSE "query"

AfterEmbed(f) == IF f = "indexDocument" THEN "upsert" ELSE "listIndexes"

\* index.upsert(...) without its await: indexDocument resolves at once.
UpsertNotAwaited == "loop"

AwaitUpsert == "awaitUpsert"

\* A rejected await is caught nowhere: it ends the module's evaluation.
\* A try/catch around indexDocument that moves on to the next recipe.
FailureSkipsDocument(f) == IF f = "indexDocument" THEN "loop" ELSE "crashed"

FailureContinuation(f) == "crashed"

\* The rejection swallowed at the top level: the process exits normally.
ExitStatusAlwaysZero(outcome) == 0

ExitStatus(outcome) == IF outcome = "completed" THEN 0 ELSE 1

(***************************************************************************)
(* Helpers on the trace.                                                   *)
(***************************************************************************)
Call(op, arg) == [op |-> op, fn |-> fn, doc |-> IF fn = "indexDocument" THEN i ELSE 0,
                  st |-> "pending", arg |-> arg, res |-> None]

Pending(op) == trace # <<>> /\ trace[Len(trace)].op = op /\ trace[Len(trace)].st = "pending"

Settle(st, res) == [trace EXCEPT ![Len(trace)].st = st, ![Len(trace)].res = res]

InFlight == {k \in 1..Len(trace) : trace[k].st = "pending"}

RemoteHas(idx, name) == \E index \in idx : index.name = name

Returned(created, h) ==
    LET g == [existed |-> RemoteHas(indexes, indexName), created |-> created, handle |-> h]
    IN  IF Len(gets) < 2 THEN Append(gets, g) ELSE <<gets[2], g>>

Terminated == pc \in {"exited", "crashed"}

(***************************************************************************)
(* Initial states.                                                         *)
(***************************************************************************)
Init ==
    /\ env \in [PINECONE_API_KEY : EnvValues, OPEN_AI_API_KEY : EnvValues]
    /\ \E n \in 0..MaxDocs : corpus = Recipes(n)
    /\ pc = "start"
    /\ fn = "main"
    /\ i = 0
    /\ handle = None
    /\ embedding = None
    /\ searchResults = None
    /\ console = <<>>
    /\ error = NoError
    /\ exitCode = None
    /\ trace = <<>>
    /\ \E others \in SUBSET {OtherIndexModel} :
         \/ indexes = others /\ store = {}
         \/ indexes = others \cup {RecipesIndexModel} /\ store \in StaleStores
    /\ lastIndexed = [d \in {} |-> None]
    /\ gets = <<>>

(***************************************************************************)
(* The script.                                                             *)
(***************************************************************************)
remote == <<indexes, store>>

locals == <<handle, embedding, searchResults>>

\* Lines 10-13 and 122: the two checks, then `new VectorDatabase()`.
ConfigCheck ==
    /\ pc = "start"
    /\ LET err == ConfigError(env)
       IN  IF err # NoError
           THEN /\ pc' = "crashed"
                /\ error' = err
                /\ exitCode' = Some(ExitStatus("threw"))
           ELSE /\ pc' = "loop"
                /\ UNCHANGED <<error, exitCode>>
    /\ UNCHANGED <<env, corpus, fn, i, locals, console, trace, remote, lastIndexed, gets>>

\* Lines 125-127 and 130: the next recipe, or the search once the loop is over.
LoopNext ==
    /\ pc = "loop"
    /\ IF LoopHasNext(i, corpus)
       THEN /\ i' = i + 1
            /\ console' = Append(console, <<"Indexing recipe:", corpus[i + 1].title>>)
            /\ fn' = "indexDocument"
            /\ pc' = FirstCall("indexDocument")
       ELSE /\ fn' = "semanticSearch"
            /\ pc' = FirstCall("semanticSearch")
            /\ UNCHANGED <<i, console>>
    /\ UNCHANGED <<env, corpus, locals, error, exitCode, trace, remote, lastIndexed, gets>>

ListIndexes ==
    /\ pc = "listIndexes"
    /\ trace' = Append(trace, Call("listIndexes", None))
    /\ pc' = "awaitListIndexes"
    /\ UNCHANGED <<env, corpus, fn, i, locals, console, error, exitCode, remote,
                   lastIndexed, gets>>

ListIndexesReturns ==
    /\ pc = "awaitListIndexes"
    /\ Pending("listIndexes")
    /\ \E response \in ListIndexesResponses(indexes) :
         /\ trace' = Settle("ok", Some(response))
         /\ IF IndexExists(response)
            THEN /\ handle' = Some(Index(indexName))
                 /\ gets' = Returned(FALSE, Index(indexName))
                 /\ pc' = AfterGetIndex(fn)
            ELSE /\ pc' = "createIndex"
                 /\ UNCHANGED <<handle, gets>>
    /\ UNCHANGED <<env, corpus, fn, i, embedding, searchResults, console, error,
                   exitCode, remote, lastIndexed>>

CreateIndex ==
    /\ pc = "createIndex"
    /\ trace' = Append(trace, Call("createIndex", CreateIndexOptions))
    /\ pc' = "awaitCreateIndex"
    /\ UNCHANGED <<env, corpus, fn, i, locals, console, error, exitCode, remote,
                   lastIndexed, gets>>

CreateIndexReturns ==
    /\ pc = "awaitCreateIndex"
    /\ Pending("createIndex")
    /\ \A index \in indexes : index.name # trace[Len(trace)].arg.name
    /\ indexes' = RemoteCreateIndex(indexes, trace[Len(trace)].arg)
    /\ trace' = Settle("ok", None)
    /\ handle' = Some(Index(indexName))
    /\ gets' = Returned(TRUE, Index(indexName))
    /\ pc' = AfterGetIndex(fn)
    /\ UNCHANGED <<env, corpus, fn, i, embedding, searchResults, console, error,
                   exitCode, store, lastIndexed>>

Embed ==
    /\ pc = "embed"
    /\ trace' = Append(trace, Call("embed",
                   EmbeddingRequest(IF fn = "indexDocument" THEN corpus[i].content
                                    ELSE QueryText)))
    /\ pc' = "awaitEmbed"
    /\ UNCHANGED <<env, corpus, fn, i, locals, console, error, exitCode, remote,
                   lastIndexed, gets>>

EmbedReturns ==
    /\ pc = "awaitEmbed"
    /\ Pending("embed")
    /\ \E v \in Vectors :
         embedding' = Some(FirstEmbedding([data |-> <<[embedding |-> v]>>]))
    /\ trace' = Settle("ok", None)
    /\ pc' = AfterEmbed(fn)
    /\ UNCHANGED <<env, corpus, fn, i, handle, searchResults, console, error,
                   exitCode, remote, lastIndexed, gets>>

Upsert ==
    /\ pc = "upsert"
    /\ trace' = Append(trace, Call("upsert", [index   |-> handle[1].index,
                                              records |-> UpsertRecords(corpus[i], embedding[1])]))
    /\ pc' = AwaitUpsert
    /\ UNCHANGED <<env, corpus, fn, i, locals, console, error, exitCode, remote,
                   lastIndexed, gets>>

UpsertReturns ==
    /\ pc = "awaitUpsert"
    /\ Pending("upsert")
    /\ \E index \in indexes : index.name = trace[Len(trace)].arg.index
    /\ store' = RemoteUpsert(store, trace[Len(trace)].arg.records)
    /\ trace' = Settle("ok", None)
    /\ lastIndexed' = [d \in DOMAIN lastIndexed \cup {corpus[i].id} |->
                         IF d = corpus[i].id
                         THEN [values |-> embedding[1], title |-> corpus[i].title,
                               content |-> corpus[i].content,
                               replaced |-> {r \in store : r.id = d}]
                         ELSE lastIndexed[d]]
    /\ pc' = "loop"
    /\ UNCHANGED <<env, corpus, fn, i, locals, console, error, exitCode, indexes, gets>>

Query ==
    /\ pc = "query"
    /\ trace' = Append(trace, Call("query", [index   |-> handle[1].index,
                                             request |-> QueryRequest(embedding[1], TopK(None))]))
    /\ pc' = "awaitQuery"
    /\ UNCHANGED <<env, corpus, fn, i, locals, console, error, exitCode, remote,
                   lastIndexed, gets>>

QueryReturns ==
    /\ pc = "awaitQuery"
    /\ Pending("query")
    /\ \E index \in indexes : index.name = trace[Len(trace)].arg.index
    /\ \E matches \in RemoteQuery(store, trace[Len(trace)].arg.request) :
         /\ trace' = Settle("ok", Some(matches))
         /\ searchResults' = Some(MapMatches(matches))
    /\ fn' = "main"
    /\ pc' = "print"
    /\ UNCHANGED <<env, corpus, i, handle, embedding, console, error, exitCode,
                   remote, lastIndexed, gets>>

\* Line 132, then the end of the module: the process exits.
PrintTable ==
    /\ pc = "print"
    /\ console' = Append(console, <<"table", searchResults[1]>>)
    /\ pc' = "exited"
    /\ exitCode' = Some(ExitStatus("completed"))
    /\ UNCHANGED <<env, corpus, fn, i, locals, error, trace, remote, lastIndexed, gets>>

\* Any awaited remote call may reject (authentication, quota, network).
RemoteFailure ==
    /\ ~Terminated
    /\ InFlight # {}
    /\ trace' = Settle("failed", None)
    /\ pc' = FailureContinuation(fn)
    /\ IF FailureContinuation(fn) = "crashed"
       THEN /\ error' = "remote call failed"
            /\ exitCode' = Some(ExitStatus("threw"))
       ELSE UNCHANGED <<error, exitCode>>
    /\ UNCHANGED <<env, corpus, fn, i, locals, console, remote, lastIndexed, gets>>

\* The script is run again, against the same account.
Restart ==
    /\ Terminated
    /\ pc' = "start"
    /\ fn' = "main"
    /\ i' = 0
    /\ handle' = None
    /\ embedding' = None
    /\ searchResults' = None
    /\ console' = <<>>
    /\ error' = NoError
    /\ exitCode' = None
    /\ trace' = <<>>
    /\ UNCHANGED <<env, corpus, remote, lastIndexed, gets>>

Step ==
    \/ ConfigCheck
    \/ LoopNext
    \/ ListIndexes
    \/ ListIndexesReturns
    \/ CreateIndex
    \/ CreateIndexReturns
    \/ Embed
    \/ EmbedReturns
    \/ Upsert
    \/ UpsertReturns
    \/ Query
    \/ QueryReturns
    \/ PrintTable
    \/ RemoteFailure

Next == Step \/ Restart

Spec == Init /\ [][Next]_vars

\* Every remote call eventually returns or fails, and the script keeps running.
FairSpec == Spec /\ WF_vars(Step)

(***************************************************************************)
(* Properties.  The formulas speak of the trace of the current run, of the *)
(* remote state and of the two history variables.                          *)
(***************************************************************************)
OnlyOpenAIMissing == [PINECONE_API_KEY |-> "key", OPEN_AI_API_KEY |-> Unset]

OnlyPineconeMissing == [PINECONE_API_KEY |-> Unset, OPEN_AI_API_KEY |-> "key"]

(***************************************************************************)
(* C1: when PINECONE_API_KEY or OPEN_AI_API_KEY is absent or empty, the    *)
(* run issues no remote call and changes nothing remotely: it ends at the  *)
(* check; and the error raised for a missing Pinecone key differs from the *)
(* one raised when only the OpenAI key is missing.                         *)
(***************************************************************************)
C1_MissingSecretFailsBeforeAnyCall ==
    /\ (Falsy(env.PINECONE_API_KEY) \/ Falsy(env.OPEN_AI_API_KEY)) =>
          /\ trace = <<>>
          /\ pc \in {"start", "crashed"}
          /\ pc = "crashed" => error # NoError /\ exitCode # Some(0)
    /\ (pc = "crashed" /\ Falsy(env.PINECONE_API_KEY)) =>
          /\ error = "Pinecone API key is required"
          /\ error # ConfigError(OnlyOpenAIMissing)
    /\ (pc = "crashed" /\ ~Falsy(env.PINECONE_API_KEY) /\ Falsy(env.OPEN_AI_API_KEY)) =>
          /\ error = "OpenAI API key is required"
          /\ error # ConfigError(OnlyPineconeMissing)

C1_Witness ==
    /\ pc = "crashed"
    /\ env.PINECONE_API_KEY = "key"
    /\ env.OPEN_AI_API_KEY = ""
    /\ error = "OpenAI API key is required"
    /\ trace = <<>>

(***************************************************************************)
(* C2: of two successive getIndex calls that return, the first issues      *)
(* createIndex exactly when 'recipes' was absent, the second never does,   *)
(* both return a handle to 'recipes'; and createIndex is only ever issued  *)
(* right after a listIndexes response without an index named 'recipes'.    *)
(***************************************************************************)
C2_GetIndexIdempotent ==
    /\ \A k \in 1..Len(gets) :
          /\ gets[k].handle = [index |-> "recipes"]
          /\ gets[k].created = ~gets[k].existed
    /\ Len(gets) = 2 => gets[2].existed /\ ~gets[2].created
    /\ handle # None => handle[1] = [index |-> "recipes"] /\ RemoteHas(indexes, "recipes")
    /\ \A k \in 1..Len(trace) :
          trace[k].op = "createIndex" =>
             /\ k > 1
             /\ trace[k - 1].op = "listIndexes"
             /\ trace[k - 1].st = "ok"
             /\ LET listed == trace[k - 1].res[1].indexes
                IN  listed = None \/ \A index \in listed[1] : index.name # "recipes"

C2_Witness ==
    /\ Len(gets) = 2
    /\ gets[1].created
    /\ ~gets[1].existed
    /\ ~gets[2].created

DocCalls(op, d) ==
    {k \in 1..Len(trace) : trace[k].fn = "indexDocument" /\ trace[k].op = op /\ trace[k].doc = d}

Completed(d) == d < i \/ (d = i /\ (pc = "loop" \/ fn # "indexDocument"))

(***************************************************************************)
(* C3: at most one remote request is in flight, and it is the one issued   *)
(* last; per document at most one embed and one upsert are issued, the     *)
(* upsert after the embed returned and for that same document; a finished  *)
(* document has exactly one of each; documents are handled in corpus order *)
(* and no call for document d+1 is issued before the upsert of d returned. *)
(***************************************************************************)
C3_SequentialCorpusLoop ==
    /\ Cardinality(InFlight) <= 1
    /\ \A k \in InFlight : k = Len(trace)
    /\ \A d \in 1..Len(corpus) :
          /\ Cardinality(DocCalls("embed", d)) <= 1
          /\ Cardinality(DocCalls("upsert", d)) <= 1
          /\ \A e \in DocCalls("embed", d) : trace[e].arg.input = corpus[d].content
          /\ \A u \in DocCalls("upsert", d) :
                /\ Len(trace[u].arg.records) = 1
                /\ trace[u].arg.records[1].id = corpus[d].id
                /\ trace[u].arg.records[1].metadata.content = corpus[d].content
                /\ \E e \in DocCalls("embed", d) : e < u /\ trace[e].st = "ok"
          /\ Completed(d) =>
                /\ Cardinality(DocCalls("embed", d)) = 1
                /\ Cardinality(DocCalls("upsert", d)) = 1
                /\ \A u \in DocCalls("upsert", d) : trace[u].st = "ok"
    /\ \A j, k \in 1..Len(trace) :
          (j < k /\ trace[j].fn = "indexDocument" /\ trace[k].fn = "indexDocument")
             => trace[j].doc <= trace[k].doc
    /\ \A k \in 1..Len(trace) :
          (trace[k].fn = "indexDocument" /\ trace[k].doc > 1) =>
             \E j \in 1..(k - 1) :
                /\ trace[j].op = "upsert"
                /\ trace[j].doc = trace[k].doc - 1
                /\ trace[j].st = "ok"

C3_Witness ==
    /\ Len(corpus) >= 2
    /\ i = 2
    /\ pc = "awaitUpsert"
    /\ InFlight = {Len(trace)}
    /\ \E u \in DocCalls("upsert", 1) : trace[u].st = "ok"

(***************************************************************************)
(* C4: when a remote call made while indexing document k fails, the run    *)
(* ends there: the failed call is the last one issued (no retry, no call   *)
(* for a later document, no query), the process has crashed, and each      *)
(* document before k is stored with the values this run upserted for it.   *)
(***************************************************************************)
C4_FailureStopsIndexing ==
    \A f \in 1..Len(trace) :
       (trace[f].st = "failed" /\ trace[f].fn = "indexDocument") =>
          LET k == trace[f].doc
          IN  /\ f = Len(trace)
              /\ pc = "crashed"
              /\ exitCode # None /\ exitCode # Some(0)
              /\ i = k
              /\ \A e \in 1..Len(trace) :
                    /\ e # f => trace[e].st = "ok"
                    /\ trace[e].doc <= k
                    /\ trace[e].fn = "indexDocument"
                    /\ trace[e].op # "query"
              /\ searchResults = None
              /\ \A d \in 1..(k - 1) :
                    \E u \in DocCalls("upsert", d) :
                       /\ trace[u].st = "ok"
                       /\ {r \in store : r.id = corpus[d].id} = {trace[u].arg.records[1]}
                       /\ trace[u].arg.records[1].metadata =
                             [title |-> corpus[d].title, content |-> corpus[d].content]

C4_Witness ==
    /\ pc = "crashed"
    /\ i = 2
    /\ trace[Len(trace)].op = "upsert"
    /\ trace[Len(trace)].st = "failed"
    /\ \E r \in store : r.id = corpus[1].id /\ r.metadata.title = corpus[1].title
    /\ \A r \in store : r.id # corpus[2].id

Results == IF searchResults = None THEN <<>> ELSE searchResults[1]

StoredContent(id) == (CHOOSE r \in store : r.id = id).metadata.content

(***************************************************************************)
(* C5: the content of every search result is the first 50 characters of    *)
(* the stored content (all of it when it is no longer than 50) followed by *)
(* the ellipsis marker; it is never longer than 50 characters plus the     *)
(* marker.                                                                 *)
(***************************************************************************)
C5_ContentTruncated ==
    \A n \in 1..Len(Results) :
       LET shown  == Results[n].content
           marker == <<226, 8364, 166>>
           kept   == Len(shown) - Len(marker)
       IN  /\ \E r \in store : r.id = Results[n].id
           /\ kept >= 0
           /\ kept <= 50
           /\ kept <= Len(StoredContent(Results[n].id))
           /\ \A j \in 1..kept : shown[j] = StoredContent(Results[n].id)[j]
           /\ \A j \in 1..Len(marker) : shown[kept + j] = marker[j]
           /\ Len(StoredContent(Results[n].id)) > 50 => kept = 50
           /\ Len(StoredContent(Results[n].id)) <= 50 => kept = Len(StoredContent(Results[n].id))

C5_Witness ==
    /\ \E n \in 1..Len(Results) :
          Len(StoredContent(Results[n].id)) > 50 /\ Len(Results[n].content) = 53
    /\ \E n \in 1..Len(Results) :
          Len(StoredContent(Results[n].id)) = 50 /\ Len(Results[n].content) = 53
    /\ \E n \in 1..Len(Results) :
          Len(StoredContent(Results[n].id)) < 50 /\ Len(Results[n].content) < 53

(***************************************************************************)
(* C6: the index never holds two records with one id; for every document   *)
(* id indexDocument has stored, the index holds exactly the record of the  *)
(* latest indexDocument call for it (vector, title, content), also across  *)
(* runs; and a search result for that id shows those latest values.        *)
(***************************************************************************)
C6_UpsertReplaces ==
    /\ \A r1, r2 \in store : r1.id = r2.id => r1 = r2
    /\ \A d \in DOMAIN lastIndexed :
          {r \in store : r.id = d} =
             { [id |-> d, values |-> lastIndexed[d].values,
                metadata |-> [title |-> lastIndexed[d].title,
                              content |-> lastIndexed[d].content]] }
    /\ \A n, m \in 1..Len(Results) : Results[n].id = Results[m].id => n = m
    /\ \A n \in 1..Len(Results) :
          Results[n].id \in DOMAIN lastIndexed =>
             LET latest == lastIndexed[Results[n].id]
             IN  /\ Results[n].title = latest.title
                 /\ Results[n].score = Score(embedding[1], latest.values)
                 /\ \A j \in 1..(Len(Results[n].content) - 3) :
                       Results[n].content[j] = latest.content[j]

C6_Witness ==
    \E d \in DOMAIN lastIndexed :
       /\ \E old \in lastIndexed[d].replaced :
             /\ old.values # lastIndexed[d].values
             /\ old.metadata.title = lastIndexed[d].title
       /\ \E n \in 1..Len(Results) : Results[n].id = d

(***************************************************************************)
(* C7: the search asks for topK = 3 matches, returns at most 3 results,    *)
(* one per remote match and in the order of the matches, so that no result *)
(* has a smaller score than the one after it.                              *)
(***************************************************************************)
C7_ResultsOrdered ==
    /\ \A k \in 1..Len(trace) : trace[k].op = "query" => trace[k].arg.request.topK = 3
    /\ Len(Results) <= 3
    /\ \A n \in 1..(Len(Results) - 1) : Results[n].score >= Results[n + 1].score
    /\ searchResults # None =>
          LET matches == trace[Len(trace)].res[1]
          IN  /\ trace[Len(trace)].op = "query"
              /\ Len(Results) = Len(matches)
              /\ \A n \in 1..Len(matches) :
                    Results[n].id = matches[n].id /\ Results[n].score = matches[n].score

C7_Witness ==
    /\ Len(Results) = 3
    /\ Cardinality(store) > 3
    /\ Results[1].score > Results[3].score

Ensuring(k) == trace[k].op \in {"listIndexes", "createIndex"}

AllUpserted == \A d \in 1..Len(corpus) : \E u \in DocCalls("upsert", d) : trace[u].st = "ok"

(***************************************************************************)
(* C8 as stated: the index is ensured once, before the first embed, and no *)
(* index-ensuring call follows an embed or an upsert; the search directly  *)
(* follows the query embed and comes after every document's upsert.        *)
(***************************************************************************)
C8_AsStated ==
    /\ \A j, k \in 1..Len(trace) :
          (j < k /\ Ensuring(k)) => trace[j].op \notin {"embed", "upsert"}
    /\ \A k \in 1..Len(trace) :
          (trace[k].op = "embed" /\ trace[k].fn = "indexDocument") =>
             \E j \in 1..(k - 1) : Ensuring(j)
    /\ \A k \in 1..Len(trace) :
          trace[k].op = "query" =>
             /\ k > 1 /\ trace[k - 1].op = "embed" /\ trace[k - 1].fn = "semanticSearch"
             /\ AllUpserted

PrevOk(k, ops, f, d) ==
    /\ k > 1
    /\ trace[k - 1].op \in ops
    /\ trace[k - 1].fn = f
    /\ trace[k - 1].doc = d
    /\ trace[k - 1].st = "ok"

(***************************************************************************)
(* C8 amended: after the configuration check, each document in corpus      *)
(* order gets listIndexes (and createIndex when the index is absent), then *)
(* its embed, then its upsert; then the query is embedded, the index is    *)
(* ensured again (listIndexes, createIndex when absent), the search is     *)
(* issued, and its results are printed.  Each call is issued only after    *)
(* the one before it returned; the search comes after every document's     *)
(* upsert, and an index-ensuring call lies between the query embed and it. *)
(***************************************************************************)
C8_LinearOrder ==
    /\ trace # <<>> => (env.PINECONE_API_KEY = "key" /\ env.OPEN_AI_API_KEY = "key")
    /\ \A k \in 1..Len(trace) :
          LET e == trace[k]
          IN  /\ (e.op = "listIndexes" /\ e.fn = "indexDocument") =>
                    IF e.doc = 1 THEN k = 1 ELSE PrevOk(k, {"upsert"}, "indexDocument", e.doc - 1)
              /\ e.op = "createIndex" => PrevOk(k, {"listIndexes"}, e.fn, e.doc)
              /\ (e.op = "embed" /\ e.fn = "indexDocument") =>
                    PrevOk(k, {"listIndexes", "createIndex"}, "indexDocument", e.doc)
              /\ e.op = "upsert" => PrevOk(k, {"embed"}, "indexDocument", e.doc)
              /\ (e.op = "embed" /\ e.fn = "semanticSearch") =>
                    /\ AllUpserted
                    /\ IF Len(corpus) = 0 THEN k = 1
                       ELSE PrevOk(k, {"upsert"}, "indexDocument", Len(corpus))
              /\ (e.op = "listIndexes" /\ e.fn = "semanticSearch") =>
                    PrevOk(k, {"embed"}, "semanticSearch", 0)
              /\ e.op = "query" =>
                    /\ PrevOk(k, {"listIndexes", "createIndex"}, "semanticSearch", 0)
                    /\ AllUpserted
                    /\ k = Len(trace)
              /\ e.fn \in {"indexDocument", "semanticSearch"}
              /\ e.fn = "indexDocument" <=> e.doc \in 1..Len(corpus)
    /\ \A c \in 1..Len(console) :
          console[c][1] = "table" =>
             /\ c = Len(console)
             /\ trace # <<>>
             /\ trace[Len(trace)].op = "query"
             /\ trace[Len(trace)].st = "ok"
             /\ console[c][2] = Results

C8_Witness ==
    /\ pc = "exited"
    /\ Len(corpus) = 2
    /\ \E k \in 1..Len(trace) : trace[k].op = "createIndex" /\ trace[k].doc = 1
    /\ trace[Len(trace)].op = "query"
    /\ trace[Len(trace) - 1].op = "listIndexes"
    /\ Len(console) = 3

KeysPresent == env.PINECONE_API_KEY \notin {Unset, ""} /\ env.OPEN_AI_API_KEY \notin {Unset, ""}

TablePrinted == \E c \in 1..Len(console) : console[c][1] = "table"

C9_Outcome ==
    Terminated =>
       /\ exitCode # None
       /\ exitCode = Some(0) <=> (KeysPresent /\ \A k \in 1..Len(trace) : trace[k].st = "ok")
       /\ exitCode = Some(0) =>
             /\ pc = "exited"
             /\ TablePrinted
             /\ trace # <<>> /\ trace[Len(trace)].op = "query"
       /\ exitCode # Some(0) =>
             /\ pc = "crashed"
             /\ ~TablePrinted
             /\ IF KeysPresent
                THEN /\ trace # <<>>
                     /\ trace[Len(trace)].st = "failed"
                     /\ \A k \in 1..(Len(trace) - 1) : trace[k].st = "ok"
                ELSE trace = <<>>

(***************************************************************************)
(* C9: every run terminates; it exits with status 0, the table printed,    *)
(* exactly when both keys were present and every remote call succeeded;    *)
(* otherwise it ends with a non-zero status at the first failing step      *)
(* (the configuration check, or the one failed call, which is the last     *)
(* call issued) and prints no table.                                       *)
(***************************************************************************)
C9_RunTerminates == [](C9_Outcome) /\ ((~Terminated) ~> Terminated)

C9_Witness ==
    /\ pc = "exited"
    /\ exitCode = Some(0)
    /\ TablePrinted
    /\ Len(corpus) = 2

(***************************************************************************)
(* C10: every createIndex call asks for name 'recipes', dimension 1536 and *)
(* metric cosine; the index 'recipes', whenever it exists, has that        *)
(* dimension and metric; every upsert and query goes to the index          *)
(* 'recipes', and every embed call uses the one embedding model.           *)
(***************************************************************************)
C10_IndexConfigPinned ==
    /\ \A k \in 1..Len(trace) :
          /\ trace[k].op = "createIndex" =>
                /\ trace[k].arg.name = "recipes"
                /\ trace[k].arg.dimension = 1536
                /\ trace[k].arg.metric = "cosine"
          /\ trace[k].op \in {"upsert", "query"} => trace[k].arg.index = "recipes"
          /\ trace[k].op = "embed" => trace[k].arg.model = "text-embedding-ada-002"
    /\ \A index \in indexes :
          index.name = "recipes" => index.dimension = 1536 /\ index.metric = "cosine"
    /\ handle # None =>
          /\ handle[1].index = "recipes"
          /\ \E index \in indexes :
                index.name = "recipes" /\ index.dimension = 1536 /\ index.metric = "cosine"

C10_Witness ==
    \E k \in 1..Len(trace) :
       /\ trace[k].op = "createIndex"
       /\ trace[k].st = "ok"
       /\ \E j \in (k + 1)..Len(trace) : trace[j].op = "upsert" /\ trace[j].st = "ok"
       /\ trace[Len(trace)].op = "query"
       /\ trace[Len(trace)].st = "ok"

====
